---- MODULE Spec2Model ----
(***************************************************************************)
(* A model of spiceware (src/src/main.rs): diceware-like passphrases.      *)
(*                                                                         *)
(*   SpecWord   get_word, one die at a time, every byte of the random      *)
(*              source allowed on every throw.                             *)
(*   SpecPhrase gen_passphrase(n), one get_word call at a time.            *)
(*   SpecMain   main, one gen_passphrase call or one output block at a     *)
(*              time.                                                      *)
(*   SpecCount  main's verbose block from line 145 on, for word counts up  *)
(*              to the overflow of the combination count and for the list  *)
(*              sizes 10 and 7776.                                         *)
(***************************************************************************)
EXTENDS Integers, Sequences, FiniteSets, TLC

VARIABLES
    pc,                     \* position in the code being run
    num_words,              \* Arguments.num_words (-w), gen_passphrase's n
    num_passwords,          \* Arguments.num_passwords (-n)
    quiet,                  \* Arguments.quiet (-q)
    key,                    \* get_word: the dice thrown so far
    index,                  \* get_word: to_index(&key)
    words,                  \* the words get_word has returned to the caller
    password,               \* the String gen_passphrase returned
    output,                 \* standard output, one entry per println!
    list_len,               \* WORDS.len() as the combination count reads it
    possible_combinations,  \* main: the f64 of line 150
    power_of_ten,           \* main: the u64 of line 151
    iter,                   \* main: iterations done of `for _ in 0..num_passwords`
    drawn,                  \* bytes sampled from the random source so far
    panicked                \* TRUE once the thread has panicked

argv == <<num_words, num_passwords, quiet>>
wordv == <<key, index>>
countv == <<list_len, possible_combinations, power_of_ten>>

vars == <<pc, argv, wordv, words, password, output, countv, iter, drawn,
          panicked>>

(***************************************************************************)
(* Bounds of the model.                                                    *)
(***************************************************************************)
\* gen_passphrase(n) is run for n in 0..MaxPhraseWords
MaxPhraseWords == 7
\* main is run with -w in 0..MaxWords
MaxWords == 2
\* main is run with -n in 0..MaxPasswords
MaxPasswords == 3
\* the combination count is computed for word counts 0..MaxExponent
MaxExponent == 81

(***************************************************************************)
(* Program constants.                                                      *)
(***************************************************************************)
\* the largest value of the u8 the random source is sampled as
U8Max == 255
\* the faces of a die: `i % 6`
DieFaces == 6
\* get_word throws 5 dice
NumDice == 5
\* the word list holds 6^5 words
WordsLen == 7776
\* test_get_word's number of draws
Iterations == 1000000

Byte == 0..U8Max

(***************************************************************************)
(* Natural numbers of any size, as sequences of base-10000 limbs with the  *)
(* least significant limb first and no leading zero limb (0 is <<>>).      *)
(* f64 values, u64 values and counts of draws are held in this form.       *)
(***************************************************************************)
RECURSIVE BigOfNat(_)
BigOfNat(n) ==
    IF n = 0 THEN <<>> ELSE <<n % 10000>> \o BigOfNat(n \div 10000)

\* a * m + carry for a natural m of at most 5 decimal digits, as the limbs at
\* a's positions and the carry out of them; the sequence is halved rather than
\* walked, and the low half is evaluated before the high half is entered, which
\* keeps the evaluation shallow (a carry is never negative)
RECURSIVE MulLimbs(_, _, _)
MulLimbs(a, m, carry) ==
    IF a = <<>> THEN [limbs |-> <<>>, carry |-> carry]
    ELSE IF Len(a) = 1
    THEN [limbs |-> <<(a[1] * m + carry) % 10000>>,
          carry |-> (a[1] * m + carry) \div 10000]
    ELSE LET h == Len(a) \div 2
             low == MulLimbs(SubSeq(a, 1, h), m, carry)
         IN  IF low.carry < 0 THEN low
             ELSE LET high == MulLimbs(SubSeq(a, h + 1, Len(a)), m, low.carry)
                  IN  [limbs |-> low.limbs \o high.limbs,
                       carry |-> high.carry]

BigMulSmall(a, m, carry) ==
    LET r == MulLimbs(a, m, carry) IN r.limbs \o BigOfNat(r.carry)

BigTimes(a, m) == IF m = 0 THEN <<>> ELSE BigMulSmall(a, m, 0)

\* the number of decimal digits of a natural n (0 has none)
RECURSIVE NatDigits(_)
NatDigits(n) == IF n = 0 THEN 0 ELSE 1 + NatDigits(n \div 10)

\* the number of decimal digits of a
BigDigits(a) ==
    IF a = <<>> THEN 0 ELSE 4 * (Len(a) - 1) + NatDigits(a[Len(a)])

\* a * b^e, the exponent halved rather than counted down (a product of 0 stays 0)
RECURSIVE BigTimesPow(_, _, _)
BigTimesPow(a, b, e) ==
    IF e = 0 THEN a
    ELSE IF e = 1 THEN BigTimes(a, b)
    ELSE LET half == BigTimesPow(a, b, e \div 2)
         IN  IF half = <<>> THEN <<>>
             ELSE BigTimesPow(half, b, e - (e \div 2))

BigPow(b, e) == BigTimesPow(<<1>>, b, e)

\* a < b: fewer limbs, or as many and the smaller limb where they first
\* differ from the most significant limb down
BigLess(a, b) ==
    IF Len(a) # Len(b) THEN Len(a) < Len(b)
    ELSE \E i \in 1..Len(a) :
             /\ a[i] < b[i]
             /\ \A j \in (i + 1)..Len(a) : a[j] = b[j]

BigLessEq(a, b) == ~BigLess(b, a)

(***************************************************************************)
(* roll_dice, to_index, get_word.                                          *)
(***************************************************************************)
\* a mutant of Die: the modulus is taken twice, so face 1 gets the bytes of two
\* residues
DieFolded(i) == ((i % 7) % 6) + 1

\* a mutant of Die: the `+ 1` is lost, faces are 0..5
DieZeroBased(i) == i % 6

\* the closure of roll_dice: `|i: u8| i % 6 + 1`
Die(i) == (i % DieFaces) + 1

\* roll_dice(n), given the n bytes the random source yields
roll_dice(bytes) == [k \in 1..Len(bytes) |-> Die(bytes[k])]

RECURSIVE Pow(_, _)
Pow(b, e) == IF e = 0 THEN 1 ELSE b * Pow(b, e - 1)

\* `n as usize - 1` leaves the range of usize when a throw is 0: a panic in a
\* build with overflow checks, a wrapped index without them
Underflows(k) == \E i \in 1..Len(k) : k[i] < 1

RECURSIVE SumTerms(_, _)
SumTerms(rev, pow) ==
    IF rev = <<>> THEN 0
    ELSE (rev[1] - 1) * Pow(6, pow) + SumTerms(Tail(rev), pow + 1)

Rev(s) == [i \in 1..Len(s) |-> s[Len(s) + 1 - i]]

\* a mutant of to_index: the `.rev()` is lost, the first throw is the least
\* significant digit
to_index_norev(k) == SumTerms(k, 0)

\* to_index: key.iter().rev().enumerate().map(..).sum()
to_index(k) == SumTerms(Rev(k), 0)

\* the word list of words.rs: WordsLen distinct words; word i is spelled with
\* the letters a..f standing for the base-6 digits of i
Letters == <<"a", "b", "c", "d", "e", "f">>

WORDS ==
    [i \in 0..(WordsLen - 1) |->
        [d \in 1..NumDice |-> Letters[((i \div Pow(6, NumDice - d)) % 6) + 1]]]

\* WORDS[index] is bounds-checked
InBounds(i) == i \in DOMAIN WORDS

\* get_word, given the 5 bytes the random source yields: the word, or
\* <<"panic">> where the code panics
get_word(bytes) ==
    LET k == roll_dice(bytes)
    IN  IF Underflows(k) \/ ~InBounds(to_index(k))
        THEN <<"panic">>
        ELSE WORDS[to_index(k)]

(***************************************************************************)
(* SpecWord: one call of get_word.                                         *)
(***************************************************************************)
Idle ==
    /\ num_words = 0
    /\ num_passwords = 0
    /\ quiet = FALSE
    /\ key = <<>>
    /\ index = 0
    /\ words = <<>>
    /\ password = <<>>
    /\ output = <<>>
    /\ list_len = WordsLen
    /\ possible_combinations = [inf |-> FALSE, digits |-> <<>>]
    /\ power_of_ten = <<>>
    /\ iter = 0
    /\ drawn = 0
    /\ panicked = FALSE

InitWord == Idle /\ pc = "roll"

\* roll_dice: the next byte of the random source becomes the next throw
Roll ==
    /\ pc = "roll"
    /\ Len(key) < NumDice
    /\ \E b \in Byte : key' = Append(key, Die(b))
    /\ drawn' = drawn + 1
    /\ UNCHANGED <<pc, argv, index, words, password, output, countv, iter,
                   panicked>>

\* `let index = to_index(&key);`
ToIndex ==
    /\ pc = "roll"
    /\ Len(key) = NumDice
    /\ IF Underflows(key)
       THEN /\ panicked' = TRUE
            /\ pc' = "panic"
            /\ index' = index
       ELSE /\ index' = to_index(key)
            /\ pc' = "lookup"
            /\ panicked' = panicked
    /\ UNCHANGED <<argv, key, words, password, output, countv, iter, drawn>>

\* `WORDS[index]`
Lookup ==
    /\ pc = "lookup"
    /\ IF InBounds(index)
       THEN /\ words' = <<WORDS[index]>>
            /\ pc' = "done"
            /\ panicked' = panicked
       ELSE /\ panicked' = TRUE
            /\ pc' = "panic"
            /\ words' = words
    /\ UNCHANGED <<argv, wordv, password, output, countv, iter, drawn>>

NextWord == Roll \/ ToIndex \/ Lookup

SpecWord == InitWord /\ [][NextWord]_vars

(***************************************************************************)
(* gen_passphrase.                                                         *)
(***************************************************************************)
\* the separator of `.join(" ")`
Delimiter == <<" ">>

\* a mutant of Join: the separator follows every word, the last included
RECURSIVE JoinTrailing(_, _)
JoinTrailing(ws, sep) ==
    IF ws = <<>> THEN <<>> ELSE ws[1] \o sep \o JoinTrailing(Tail(ws), sep)

\* [&str]::join: the strings of ws with sep between neighbours
RECURSIVE Join(_, _)
Join(ws, sep) ==
    IF ws = <<>> THEN <<>>
    ELSE IF Len(ws) = 1 THEN ws[1]
    ELSE ws[1] \o sep \o Join(Tail(ws), sep)

\* a mutant of WordCalls: the range is inclusive, `0..=n`
WordCallsInclusive(n) == 1..(n + 1)

\* the range `(0..n)` gen_passphrase maps get_word over, as call numbers
WordCalls(n) == 1..n

Panic == <<"panic">>

\* gen_passphrase(n), given the bytes source[i] that call i of get_word draws:
\* the String, or Panic where a call panics
gen_passphrase(n, source) ==
    LET ws == [i \in WordCalls(n) |-> get_word(source[i])]
    IN  IF \E i \in WordCalls(n) : ws[i] = Panic
        THEN Panic
        ELSE Join(ws, Delimiter)

\* the draws of 5 bytes gen_passphrase's calls of get_word are given
PhraseDraws ==
    { <<0, 1, 2, 3, 4>>, <<5, 4, 3, 2, 1>>, <<255, 255, 255, 255, 255>> }

(***************************************************************************)
(* SpecPhrase: one call of gen_passphrase(num_words).                      *)
(***************************************************************************)
InitPhrase ==
    /\ pc = "collect"
    /\ num_words \in 0..MaxPhraseWords
    /\ num_passwords = 0
    /\ quiet = FALSE
    /\ key = <<>>
    /\ index = 0
    /\ words = <<>>
    /\ password = <<>>
    /\ output = <<>>
    /\ list_len = WordsLen
    /\ possible_combinations = [inf |-> FALSE, digits |-> <<>>]
    /\ power_of_ten = <<>>
    /\ iter = 0
    /\ drawn = 0
    /\ panicked = FALSE

\* `.map(|_| get_word())`: the next call of get_word
MapGetWord ==
    /\ pc = "collect"
    /\ Len(words) + 1 \in WordCalls(num_words)
    /\ \E bytes \in PhraseDraws :
           LET w == get_word(bytes)
           IN  IF w = Panic
               THEN /\ panicked' = TRUE
                    /\ pc' = "panic"
                    /\ words' = words
               ELSE /\ words' = Append(words, w)
                    /\ pc' = pc
                    /\ panicked' = panicked
    /\ drawn' = drawn + NumDice
    /\ UNCHANGED <<argv, wordv, password, output, countv, iter>>

\* `.collect::<Vec<&str>>().join(" ")`, and the return
CollectJoin ==
    /\ pc = "collect"
    /\ Len(words) + 1 \notin WordCalls(num_words)
    /\ password' = Join(words, Delimiter)
    /\ pc' = "returned"
    /\ UNCHANGED <<argv, wordv, words, output, countv, iter, drawn, panicked>>

NextPhrase == MapGetWord \/ CollectJoin

SpecPhrase == InitPhrase /\ [][NextPhrase]_vars

(***************************************************************************)
(* The f64 and u64 arithmetic of main's combination count.  An f64 is      *)
(* [inf |-> TRUE] or a finite value held exactly: rounding to 53 bits      *)
(* leaves floor(log10) of list_len^n unchanged for the sizes and counts    *)
(* run here.                                                               *)
(***************************************************************************)
\* the least power of two an f64 cannot hold: 2^1024 = 65536^64
F64Overflow == BigPow(65536, 64)

\* f64::powf for a whole base and exponent
powf(base, e) ==
    LET exact == BigPow(base, e)
    IN  IF BigLess(exact, F64Overflow)
        THEN [inf |-> FALSE, digits |-> exact]
        ELSE [inf |-> TRUE, digits |-> <<>>]

\* u64::MAX, 18446744073709551615
U64Max == <<1615, 955, 737, 6744, 1844>>

\* 2^63, 9223372036854775808
TwoTo63 == <<5808, 5477, 368, 3372, 922>>

\* `f64::INFINITY as u64`: u64::MAX where the cast saturates (Rust 1.45 on);
\* undefined behaviour before that, where x86-64 code yields 0 or 2^63
CastOfInfinity == {U64Max, <<>>, TwoTo63}

\* a mutant of log10_floor_as_u64: the number of digits, one more than the
\* floor of the logarithm
log10_digits_as_u64(x) ==
    IF x.inf THEN CastOfInfinity ELSE {BigOfNat(BigDigits(x.digits))}

\* `x.log10().floor() as u64` for x >= 1: the values the cast can yield
log10_floor_as_u64(x) ==
    IF x.inf THEN CastOfInfinity ELSE {BigOfNat(BigDigits(x.digits) - 1)}

(***************************************************************************)
(* Standard output.  A println! is its format string, cut into words, and  *)
(* its arguments.                                                          *)
(***************************************************************************)
Line(fmt, args) == [fmt |-> fmt, args |-> args]

\* time_to_guess's Time, left as the call that makes it: its f64 divisions
\* and remainders cannot panic and nothing below reads the duration
time_to_guess(guesses_per_s, combinations) ==
    [guesses_per_s |-> guesses_per_s, possible_combinations |-> combinations]

FmtPlain == <<"{}">>
FmtPassword == <<"\t{}">>
FmtCombinations ==
    <<"This", "password", "is", "one", "of", "10^{}", "possible",
      "combinations.">>

\* the println! calls of main's lines 153 to 176
VerboseBlock(pw, combinations, exponent) ==
    << Line(<<"Your", "password", "is:">>, <<>>),
       Line(<<>>, <<>>),
       Line(FmtPassword, <<pw>>),
       Line(<<>>, <<>>),
       Line(FmtCombinations, <<exponent>>),
       Line(<<>>, <<>>),
       Line(<<"Assuming", "1,000,000", "guesses", "per", "second,", "the",
              "average", "time", "it", "takes", "to", "guess", "your",
              "password", "is:">>, <<>>),
       Line(<<"\t{}", "if", "the", "attacker", "knows", "the", "scheme",
              "used", "to", "generate", "your", "password">>,
            <<time_to_guess(1000000, combinations)>>),
       Line(<<"\t{}", "if", "the", "attacker", "does", "not", "know", "the",
              "scheme">>,
            <<time_to_guess(1000000, [base |-> 62, exponent |-> Len(pw)])>>) >>

(***************************************************************************)
(* SpecMain: one run of main.                                              *)
(***************************************************************************)
\* the draws of 5 bytes main's calls of get_word are given
MainDraws == { <<0, 1, 2, 3, 4>>, <<255, 255, 255, 255, 255>> }

\* a mutant of BatchLoop: the loop is also taken for one passphrase
BatchLoopFromOne(n) == n >= 1

\* `if args.num_passwords > 1`
BatchLoop(n) == n > 1

InitMain ==
    /\ pc = "main"
    /\ num_words \in 0..MaxWords
    /\ num_passwords \in 0..MaxPasswords
    /\ quiet \in BOOLEAN
    /\ key = <<>>
    /\ index = 0
    /\ words = <<>>
    /\ password = <<>>
    /\ output = <<>>
    /\ list_len = WordsLen
    /\ possible_combinations = [inf |-> FALSE, digits |-> <<>>]
    /\ power_of_ten = <<>>
    /\ iter = 0
    /\ drawn = 0
    /\ panicked = FALSE

\* one iteration of the loop: `println!("{}", gen_passphrase(args.num_words))`
BatchLine ==
    /\ pc = "main"
    /\ BatchLoop(num_passwords)
    /\ iter < num_passwords
    /\ \E source \in [WordCalls(num_words) -> MainDraws] :
           LET pw == gen_passphrase(num_words, source)
           IN  IF pw = Panic
               THEN /\ panicked' = TRUE
                    /\ pc' = "panic"
                    /\ UNCHANGED <<output, iter>>
               ELSE /\ output' = Append(output, Line(FmtPlain, <<pw>>))
                    /\ iter' = iter + 1
                    /\ UNCHANGED <<pc, panicked>>
    /\ drawn' = drawn + NumDice * Cardinality(WordCalls(num_words))
    /\ UNCHANGED <<argv, wordv, words, password, countv>>

\* the end of the loop, and the `return` after it
BatchReturn ==
    /\ pc = "main"
    /\ BatchLoop(num_passwords)
    /\ iter >= num_passwords
    /\ pc' = "done"
    /\ UNCHANGED <<argv, wordv, words, password, output, countv, iter, drawn,
                   panicked>>

\* `let password = gen_passphrase(args.num_words);`
Single ==
    /\ pc = "main"
    /\ ~BatchLoop(num_passwords)
    /\ \E source \in [WordCalls(num_words) -> MainDraws] :
           LET pw == gen_passphrase(num_words, source)
           IN  IF pw = Panic
               THEN /\ panicked' = TRUE
                    /\ pc' = "panic"
                    /\ password' = password
               ELSE /\ password' = pw
                    /\ pc' = "generated"
                    /\ panicked' = panicked
    /\ drawn' = drawn + NumDice * Cardinality(WordCalls(num_words))
    /\ UNCHANGED <<argv, wordv, words, output, countv, iter>>

\* `if args.quiet { println!("{}", password); return; }`
QuietPrint ==
    /\ pc = "generated"
    /\ quiet
    /\ output' = Append(output, Line(FmtPlain, <<password>>))
    /\ pc' = "done"
    /\ UNCHANGED <<argv, wordv, words, password, countv, iter, drawn,
                   panicked>>

\* lines 150 and 151: possible_combinations and power_of_ten
Combinations ==
    /\ pc = "generated"
    /\ ~quiet
    /\ possible_combinations' = powf(list_len, num_words)
    /\ power_of_ten' \in log10_floor_as_u64(powf(list_len, num_words))
    /\ pc' = "counted"
    /\ UNCHANGED <<argv, wordv, words, password, output, list_len, iter,
                   drawn, panicked>>

\* lines 153 to 176: the verbose block
PrintBlock ==
    /\ pc = "counted"
    /\ output' = output
                 \o VerboseBlock(password, possible_combinations, power_of_ten)
    /\ pc' = "done"
    /\ UNCHANGED <<argv, wordv, words, password, countv, iter, drawn,
                   panicked>>

NextMain ==
    \/ BatchLine
    \/ BatchReturn
    \/ Single
    \/ QuietPrint
    \/ Combinations
    \/ PrintBlock

SpecMain == InitMain /\ [][NextMain]_vars

(***************************************************************************)
(* SpecCount: main from line 145 on in verbose mode, for list sizes        *)
(* CountSizes and word counts up to MaxExponent, the password being        *)
(* gen_passphrase's for one draw repeated.                                 *)
(***************************************************************************)
\* the list sizes the count is computed for: 10, the spec's example, and WORDS'
CountSizes == {10, WordsLen}

InitCount ==
    /\ pc = "generated"
    /\ num_words \in 0..MaxExponent
    /\ num_passwords \in 0..1
    /\ quiet = FALSE
    /\ key = <<>>
    /\ index = 0
    /\ words = <<>>
    /\ \E d \in MainDraws :
           password = gen_passphrase(num_words, [i \in WordCalls(num_words) |-> d])
    /\ output = <<>>
    /\ list_len \in CountSizes
    /\ possible_combinations = [inf |-> FALSE, digits |-> <<>>]
    /\ power_of_ten = <<>>
    /\ iter = 0
    /\ drawn = NumDice * num_words
    /\ panicked = FALSE

NextCount == Combinations \/ PrintBlock

SpecCount == InitCount /\ [][NextCount]_vars

(***************************************************************************)
(* Counting the draws behind a selection (used by C1 and C8).              *)
(***************************************************************************)
\* the number of byte values roll_dice's closure maps to face f
FaceCount(f) == Cardinality({b \in Byte : Die(b) = f})

\* a times the number of sequences of Len(k) bytes that roll_dice maps to the
\* key k
RECURSIVE TimesKeyWays(_, _)
TimesKeyWays(a, k) ==
    IF k = <<>> THEN a ELSE TimesKeyWays(BigTimes(a, FaceCount(k[1])), Tail(k))

KeyWays(k) == TimesKeyWays(<<1>>, k)

\* the number of sequences of NumDice bytes the random source can yield
AllDraws == BigPow(U8Max + 1, NumDice)

\* C1: get_word selects every index with the same probability: every face has
\* as many byte preimages as any face thrown, and the index selected has a
\* 1/WordsLen share of the 256^5 equally likely draws.
C1_UniformSelection ==
    pc = "done" =>
        /\ \A i \in 1..NumDice : \A f \in 1..DieFaces :
               FaceCount(f) = FaceCount(key[i])
        /\ BigTimes(KeyWays(key), WordsLen) = AllDraws

\* C6: for every outcome of the 5 bytes, no throw underflows `n - 1`, the
\* index lies in [0, WordsLen), and the lookup WORDS[index] does not panic.
C6_IndexInBounds ==
    /\ ~panicked
    /\ pc # "panic"
    /\ Len(key) = NumDice => ~Underflows(key)
    /\ pc \in {"lookup", "done"} => index >= 0 /\ index < WordsLen

C6_Witness ==
    /\ pc = "done"
    /\ index = WordsLen - 1
    /\ words = <<WORDS[WordsLen - 1]>>

\* test_get_word's `expected_mean`: iterations / WORDS.len()
expected_mean == Iterations \div WordsLen

\* C8: with uniform bytes the expected number of selections of the index in
\* Iterations draws, Iterations * KeyWays / 256^5, is strictly between
\* 0.5 * expected_mean and 1.5 * expected_mean (compared after multiplying
\* through by 2 * 256^5).
C8_FrequencyWithinHalf ==
    pc = "done" =>
        LET twice == TimesKeyWays(BigOfNat(2 * Iterations), key)
        IN  /\ BigLess(BigTimes(AllDraws, expected_mean), twice)
            /\ BigLess(twice, BigTimes(AllDraws, 3 * expected_mean))

\* an index all of whose throws are faces with the fewest byte preimages
C8_Witness ==
    /\ pc = "done"
    /\ \A i \in 1..NumDice : \A f \in 1..DieFaces :
           FaceCount(key[i]) <= FaceCount(f)
    /\ index = to_index(key)

\* the value of the base-6 number whose digits are the throws minus one, the
\* first throw most significant
RECURSIVE Base6Value(_, _)
Base6Value(k, acc) ==
    IF k = <<>> THEN acc ELSE Base6Value(Tail(k), 6 * acc + (k[1] - 1))

\* C9: to_index(key) is the sum of (key[i] - 1) * 6^(4 - i): the base-6 value
\* of the throws minus one, first throw most significant; [1,1,1,1,1] -> 0,
\* [1,2,3,4,5] -> 310, [6,5,4,3,2] -> 7465, [6,6,6,6,6] -> 7775.
C9_ToIndexBase6 ==
    pc \in {"lookup", "done"} =>
        /\ index = Base6Value(key, 0)
        /\ index = (key[1] - 1) * 1296 + (key[2] - 1) * 216 + (key[3] - 1) * 36
                   + (key[4] - 1) * 6 + (key[5] - 1)
        /\ key = <<1, 1, 1, 1, 1>> => index = 0
        /\ key = <<1, 2, 3, 4, 5>> => index = 310
        /\ key = <<6, 5, 4, 3, 2>> => index = 7465
        /\ key = <<6, 6, 6, 6, 6>> => index = 7775

C9_Witness == pc = "done" /\ key = <<6, 5, 4, 3, 2>> /\ index = 7465

\* str::split(sep) for a one-character separator: the pieces between the
\* separators, one more than there are separators
RECURSIVE SplitFrom(_, _, _)
SplitFrom(s, sep, piece) ==
    IF s = <<>> THEN <<piece>>
    ELSE IF s[1] = sep THEN <<piece>> \o SplitFrom(Tail(s), sep, <<>>)
    ELSE SplitFrom(Tail(s), sep, Append(piece, s[1]))

Split(s, sep) == SplitFrom(s, sep, <<>>)

WordSet == {WORDS[i] : i \in DOMAIN WORDS}

\* C2: for n >= 1 and every outcome of the draws, gen_passphrase(n) returns
\* exactly n words of the list joined by single spaces: splitting the result
\* on the space gives n pieces, the words selected, in the order selected.
C2_ExactlyNWords ==
    (pc = "returned" /\ num_words >= 1) =>
        /\ Len(Split(password, " ")) = num_words
        /\ Cardinality({i \in 1..Len(password) : password[i] = " "})
               = num_words - 1
        /\ Split(password, " ") = words
        /\ \A i \in 1..num_words : Split(password, " ")[i] \in WordSet

\* a passphrase of the largest word count, with a word repeated
C2_Witness ==
    /\ pc = "returned"
    /\ num_words = MaxPhraseWords
    /\ Len(Split(password, " ")) = MaxPhraseWords
    /\ words[1] = words[2]
    /\ words[1] # words[3]

(***************************************************************************)
(* What a run of main has written (used by C3, C4, C5, C7 and C10).        *)
(***************************************************************************)
Range(f) == {f[x] : x \in DOMAIN f}

\* the lines that carry a passphrase: `{}` alone, or the verbose block's
PassphraseLines(out) ==
    SelectSeq(out, LAMBDA l : l.fmt \in {<<"{}">>, <<"\t{}">>})

\* the lines that state the number of combinations
CombinationLines(out) ==
    SelectSeq(out, LAMBDA l : "10^{}" \in Range(l.fmt))

\* pw is n words of the list with single spaces between them
IsPassphraseOf(pw, n) ==
    IF n = 0 THEN pw = <<>>
    ELSE /\ Len(Split(pw, " ")) = n
         /\ \A i \in 1..Len(Split(pw, " ")) : Split(pw, " ")[i] \in WordSet

\* list_len^num_words, and whether an f64 holds a number of its size
ExactCombinations == BigPow(list_len, num_words)

Representable == BigLess(ExactCombinations, F64Overflow)

\* C3: when list_len^num_words is beyond the f64 range, the verbose run does
\* not crash and its combination line says "over 10^k" for a k with
\* 10^k <= list_len^num_words, a lower bound, not a wrapped or wrong magnitude.
C3_OverflowSaysOver ==
    (pc = "done" /\ ~Representable) =>
        /\ ~panicked
        /\ Len(CombinationLines(output)) = 1
        /\ "over" \in Range(CombinationLines(output)[1].fmt)
        /\ BigLessEq(CombinationLines(output)[1].args[1],
                     BigOfNat(BigDigits(ExactCombinations) - 1))

\* C4: a run given -n c, c = 0 and 1 included, quiet or not, emits exactly c
\* passphrases, each of num_words words.
C4_ExactlyCountPassphrases ==
    pc = "done" =>
        /\ Len(PassphraseLines(output)) = num_passwords
        /\ \A i \in 1..Len(PassphraseLines(output)) :
               IsPassphraseOf(PassphraseLines(output)[i].args[1], num_words)

\* batch mode as the spec defines it
BatchMode == num_passwords > 1 \/ quiet

C5_Output ==
    /\ BatchMode =>
           \A i \in 1..Len(output) :
               /\ output[i].fmt = <<"{}">>
               /\ IsPassphraseOf(output[i].args[1], num_words)
    /\ (BatchMode /\ pc = "done") => Len(output) >= 1
    /\ (~BatchMode /\ pc # "done") => output = <<>>
    /\ (~BatchMode /\ pc = "done") =>
           /\ Len(PassphraseLines(output)) = 1
           /\ PassphraseLines(output)[1] = [fmt |-> <<"\t{}">>,
                                            args |-> <<password>>]
           /\ IsPassphraseOf(password, num_words)
           /\ Len(CombinationLines(output)) = 1
           /\ CombinationLines(output)[1].args
                  = <<BigOfNat(BigDigits(ExactCombinations) - 1)>>
           /\ \E i \in 1..Len(output) : output[i].args = <<>>

C7_OrderOfMagnitude ==
    (pc = "done" /\ Representable) =>
        /\ ~possible_combinations.inf
        /\ Len(CombinationLines(output)) = 1
        /\ LET shown == CombinationLines(output)[1].args[1]
               k == IF shown = <<>> THEN 0 ELSE shown[1]
           IN  /\ Len(shown) <= 1
               /\ BigLessEq(BigPow(10, k), ExactCombinations)
               /\ BigLess(ExactCombinations, BigPow(10, k + 1))
               /\ (list_len = 10 /\ num_words = 3) =>
                      /\ possible_combinations.digits = <<1000>>
                      /\ k = 3

C7_Witness ==
    /\ pc = "done"
    /\ list_len = 10
    /\ num_words = 3
    /\ power_of_ten = <<3>>
    /\ CombinationLines(output)[1].args = <<power_of_ten>>

\* C10: a word count of 0 is no error: gen_passphrase(0) draws nothing and
\* returns the empty string, every passphrase written is empty, nothing
\* panics, and the run goes on until it is done, in every output mode.
C10_ZeroWords ==
    num_words = 0 =>
        /\ ~panicked
        /\ pc # "panic"
        /\ drawn = 0
        /\ password = <<>>
        /\ \A i \in 1..Len(PassphraseLines(output)) :
               PassphraseLines(output)[i].args = << <<>> >>
        /\ pc = "done" \/ ENABLED NextMain

\* a verbose run with no words, done
C10_Witness ==
    /\ pc = "done"
    /\ num_words = 0
    /\ ~quiet
    /\ num_passwords = 1
    /\ Len(output) = 9
    /\ power_of_ten = <<>>

====
